---- MODULE Spec2Model ----
(***************************************************************************)
(* A model of main.py: the link sanitizer, the date resolver, the tab      *)
(* label allocation, the format transplant and the per-client / per-batch  *)
(* drivers.  Text is a sequence of one-character strings, a worksheet is a *)
(* record of its cells, merged ranges and dimensions, a workbook is the    *)
(* sequence of its worksheets.                                             *)
(***************************************************************************)
EXTENDS Integers, Sequences, FiniteSets, TLC

VARIABLES
    template_wb,          \* the content of Template.xlsx on disk (<< >>: no such file)
    client_files,         \* what get_client_files returns
    clients_from_account_list,  \* what read_account_list returns
    client_data,          \* create_summary_files: client name -> file list, in dict order
    bpc,                  \* create_summary_files: position ("clients", "report", "crashed")
    ci,                   \* create_summary_files: index of the client being built
    successful_clients,   \* create_summary_files: successful_clients
    failed_clients,       \* create_summary_files: failed_clients
    pc,                   \* create_summary_for_client: position
    summary_wb,           \* create_summary_for_client: summary_wb
    client_files_list,    \* create_summary_for_client: client_files_list
    fi,                   \* create_summary_for_client: index of the next file of the loop
    tabs_created,         \* create_summary_for_client: tabs_created
    client_ws,            \* the worksheet handed to extract_date_from_sheet
    sheet_date,           \* the result of extract_date_from_sheet
    hist                  \* history: what the run did, for stating the properties

vars == <<template_wb, client_files, clients_from_account_list, client_data, bpc, ci, successful_clients, failed_clients,
          pc, summary_wb, client_files_list, fi, tabs_created, client_ws,
          sheet_date, hist>>

-----------------------------------------------------------------------------
(* Text                                                                    *)

\* s[a..b], empty when a > b (Python's s[a-1:b])
Slice(s, a, b) == IF a > b THEN << >> ELSE SubSeq(s, a, b)

\* Python's s[:n] for n >= 0
Prefix(s, n) == Slice(s, 1, IF n < Len(s) THEN n ELSE Len(s))

\* Python's "ch in s" for a one-character ch
Contains(s, ch) == \E i \in 1..Len(s) : s[i] = ch

\* Python's s.startswith(p)
StartsWith(s, p) == Len(s) >= Len(p) /\ Prefix(s, Len(p)) = p

\* p occurs in s at position i
OccursAt(s, p, i) == i >= 1 /\ i + Len(p) - 1 <= Len(s) /\ Slice(s, i, i + Len(p) - 1) = p

-----------------------------------------------------------------------------
(* Cell values and styles                                                  *)

None == [t |-> "none", s |-> << >>, d |-> <<0, 0, 0>>, n |-> 0]
Str(s) == [t |-> "str", s |-> s, d |-> <<0, 0, 0>>, n |-> 0]
Num(n) == [t |-> "num", s |-> << >>, d |-> <<0, 0, 0>>, n |-> n]
Dt(y, m, d) == [t |-> "datetime", s |-> << >>, d |-> <<y, m, d>>, n |-> 0]

\* Python's truth value of a cell value (None, "" and 0 are false)
Truthy(v) ==
    CASE v.t = "none" -> FALSE
      [] v.t = "str" -> v.s # << >>
      [] v.t = "num" -> v.n # 0
      [] OTHER -> TRUE

\* the six parts of a style bundle; border is the set of sides that carry a line
DefaultStyle ==
    [font |-> "default", border |-> {}, fill |-> "none",
     number_format |-> "General", protection |-> "locked", alignment |-> "general"]

\* a Cell (merged = FALSE) or a MergedCell (merged = TRUE, its value is always None)
DefaultCell == [value |-> None, style |-> DefaultStyle, merged |-> FALSE]

\* StyleableObject.has_style
has_style(cell) == cell.style # DefaultStyle

\* the elements of a list
Range(f) == { f[i] : i \in DOMAIN f }

\* ws.cell(row, column): a cell that does not exist yet is created empty
CellAt(ws, p) == IF p \in DOMAIN ws.cells THEN ws.cells[p] ELSE DefaultCell

sheetnames(wb) == [i \in DOMAIN wb |-> wb[i].title]

SheetNameSet(wb) == {wb[i].title : i \in DOMAIN wb}

\* wb[name]: the first sheet of that title
SheetIndex(wb, name) == CHOOSE i \in DOMAIN wb : wb[i].title = name /\ \A j \in 1..(i - 1) : wb[j].title # name

-----------------------------------------------------------------------------
(* remove_external_links                                                   *)

\* re.search(r'\[.*\.xl.*\]', s): "." does not match a line break
ExternalLinkPattern(s) ==
    \E i \in 1..Len(s), j \in 1..Len(s), k \in 1..Len(s) :
        /\ s[i] = "["
        /\ j > i
        /\ OccursAt(s, <<".", "x", "l">>, j)
        /\ k >= j + 3
        /\ s[k] = "]"
        /\ \A m \in (i + 1)..(k - 1) : s[m] # "\n"

\* lines 19-29: whether the cell's value is set to None
ShouldClear(v) ==
    /\ v.t = "str"
    /\ Truthy(v)
    /\ (ExternalLinkPattern(v.s) \/ Contains(v.s, "'"))
    /\ StartsWith(v.s, <<"=">>)
    /\ Contains(v.s, "[")
    /\ Contains(v.s, "]")

SanitizeSheet(ws) ==
    [ws EXCEPT !.cells = [p \in DOMAIN @ |->
        IF ShouldClear(@[p].value) THEN [@[p] EXCEPT !.value = None] ELSE @[p]]]

remove_external_links(wb) == [i \in DOMAIN wb |-> SanitizeSheet(wb[i])]

-----------------------------------------------------------------------------
(* extract_date_from_sheet                                                 *)

IsDigit(ch) == ch \in {"0", "1", "2", "3", "4", "5", "6", "7", "8", "9"}

DigitVal(ch) ==
    CASE ch = "0" -> 0 [] ch = "1" -> 1 [] ch = "2" -> 2 [] ch = "3" -> 3
      [] ch = "4" -> 4 [] ch = "5" -> 5 [] ch = "6" -> 6 [] ch = "7" -> 7
      [] ch = "8" -> 8 [] ch = "9" -> 9

DigitChar(n) == <<"0", "1", "2", "3", "4", "5", "6", "7", "8", "9">>[n + 1]

\* whether s has a digit at position i
DigitAt(s, i) == i >= 1 /\ i <= Len(s) /\ IsDigit(s[i])

\* the value of the two digits at i, i+1
Two(s, i) == 10 * DigitVal(s[i]) + DigitVal(s[i + 1])

\* _strptime's regex for %m, (1[0-2]|0[1-9]|[1-9]): the alternatives that match
\* at i, in the order the regex tries them, as <<length, value>>
MonthAlts(s, i) ==
    (IF DigitAt(s, i) /\ DigitAt(s, i + 1) /\ Two(s, i) >= 1 /\ Two(s, i) <= 12
        THEN << <<2, Two(s, i)>> >> ELSE << >>)
    \o (IF DigitAt(s, i) /\ DigitVal(s[i]) >= 1 THEN << <<1, DigitVal(s[i])>> >> ELSE << >>)

\* _strptime's regex for %d, (3[0-1]|[1-2]\d|0[1-9]|[1-9]| [1-9])
DayAlts(s, i) ==
    (IF DigitAt(s, i) /\ DigitAt(s, i + 1) /\ Two(s, i) >= 1 /\ Two(s, i) <= 31
        THEN << <<2, Two(s, i)>> >> ELSE << >>)
    \o (IF DigitAt(s, i) /\ DigitVal(s[i]) >= 1 THEN << <<1, DigitVal(s[i])>> >> ELSE << >>)
    \o (IF i >= 1 /\ i <= Len(s) /\ s[i] = " " /\ DigitAt(s, i + 1) /\ DigitVal(s[i + 1]) >= 1
        THEN << <<2, DigitVal(s[i + 1])>> >> ELSE << >>)

\* _strptime's regex for %Y, (\d\d\d\d)
YearAlts(s, i) ==
    IF DigitAt(s, i) /\ DigitAt(s, i + 1) /\ DigitAt(s, i + 2) /\ DigitAt(s, i + 3)
    THEN << <<4, 100 * Two(s, i) + Two(s, i + 2)>> >> ELSE << >>

NoMatch == [ok |-> FALSE, end |-> 0, Y |-> 0, m |-> 0, d |-> 0]

RECURSIVE ReMatch(_, _, _, _, _)
RECURSIVE ReTry(_, _, _, _, _, _, _)

\* the alternatives of the group of a directive at position i
Alts(s, i, directive) ==
    CASE directive = "%Y" -> YearAlts(s, i)
      [] directive = "%m" -> MonthAlts(s, i)
      [] OTHER -> DayAlts(s, i)

\* the regex of format fmt matched against s from position i, from the fmt's
\* k-th element on, with backtracking: the first way that matches, as re.match
\* finds it; acc holds the groups matched so far
ReMatch(s, i, fmt, k, acc) ==
    IF k > Len(fmt) THEN [acc EXCEPT !.ok = TRUE, !.end = i - 1]
    ELSE IF fmt[k] \in {"%Y", "%m", "%d"} THEN ReTry(s, i, fmt, k, acc, Alts(s, i, fmt[k]), 1)
    ELSE IF i <= Len(s) /\ s[i] = fmt[k] THEN ReMatch(s, i + 1, fmt, k + 1, acc)
    ELSE NoMatch

\* the groups with the group named by the directive set to val
WithGroup(acc, directive, val) ==
    CASE directive = "%Y" -> [acc EXCEPT !.Y = val]
      [] directive = "%m" -> [acc EXCEPT !.m = val]
      [] OTHER -> [acc EXCEPT !.d = val]

\* r is the match of the rest after the a-th alternative: it stands, or the next
\* alternative is tried
ReNext(s, i, fmt, k, acc, alts, a, r) ==
    IF r.ok THEN r ELSE ReTry(s, i, fmt, k, acc, alts, a + 1)

\* the a-th alternative of the group fmt[k], then the rest; the next one on failure
ReTry(s, i, fmt, k, acc, alts, a) ==
    IF a > Len(alts) THEN NoMatch
    ELSE ReNext(s, i, fmt, k, acc, alts, a,
                ReMatch(s, i + alts[a][1], fmt, k + 1, WithGroup(acc, fmt[k], alts[a][2])))

IsLeap(y) == (y % 4 = 0 /\ y % 100 # 0) \/ y % 400 = 0

DaysInMonth(y, m) ==
    IF m = 2 THEN (IF IsLeap(y) THEN 29 ELSE 28)
    ELSE IF m \in {4, 6, 9, 11} THEN 30 ELSE 31

\* the date of a regex match r of the text s, when all of s was matched and the
\* date exists
MatchedDate(s, r) ==
    IF r.ok /\ r.end = Len(s) /\ r.Y >= 1 /\ r.d <= DaysInMonth(r.Y, r.m)
    THEN [ok |-> TRUE, date |-> <<r.Y, r.m, r.d>>]
    ELSE [ok |-> FALSE, date |-> <<0, 0, 0>>]

\* datetime.strptime(s, fmt): a ValueError (ok = FALSE) when the regex does not
\* match, when text remains after the match, or when the date does not exist
strptime(s, fmt) == MatchedDate(s, ReMatch(s, 1, fmt, 1, NoMatch))

RECURSIVE DecimalDigits(_)
\* str(n) for n >= 0
DecimalDigits(n) == IF n < 10 THEN <<DigitChar(n)>> ELSE DecimalDigits(n \div 10) \o <<DigitChar(n % 10)>>

TwoDigits(n) == <<DigitChar(n \div 10), DigitChar(n % 10)>>

\* d.strftime("%Y%m%d") (the C library writes the year without padding; the
\* years of the model have four digits)
strftime(d) == DecimalDigits(d[1]) \o TwoDigits(d[2]) \o TwoDigits(d[3])

\* line 50: the formats, in the order tried
DateFormats ==
    << <<"%Y", "-", "%m", "-", "%d">>,
       <<"%m", "/", "%d", "/", "%Y">>,
       <<"%d", "/", "%m", "/", "%Y">>,
       <<"%Y", "%m", "%d">> >>

\* extract_date_from_sheet's None; strftime never returns the empty text
NoDate == << >>

RECURSIVE TryFormats(_, _)
\* lines 51-56: the f-th format parsed s as r, or not
TryFormat(s, f, r) == IF r.ok THEN strftime(r.date) ELSE TryFormats(s, f + 1)

\* lines 50-56, from the f-th format on
TryFormats(s, f) ==
    IF f > Len(DateFormats) THEN NoDate ELSE TryFormat(s, f, strptime(s, DateFormats[f]))

\* lines 42-58: what one cell's value sets date_value to
CellDate(v) ==
    IF ~Truthy(v) THEN NoDate
    ELSE IF v.t = "datetime" THEN strftime(v.d)
    ELSE IF v.t = "str" THEN TryFormats(v.s, 1)
    ELSE NoDate

\* lines 39-40: range(1, 6)
WindowSize == 5

\* the k-th cell of the window in the order of the two loops, k from 0
WindowPos(k) == <<(k \div WindowSize) + 1, (k % WindowSize) + 1>>

RECURSIVE ScanWindow(_, _)
\* lines 57-60: the k-th cell gave date_value; the loops end when it is set
ScanStep(ws, k, date_value) == IF date_value # NoDate THEN date_value ELSE ScanWindow(ws, k + 1)

\* lines 39-60, from the k-th cell of the window on
ScanWindow(ws, k) ==
    IF k >= WindowSize * WindowSize THEN NoDate
    ELSE ScanStep(ws, k, CellDate(CellAt(ws, WindowPos(k)).value))

\* the k-th cell of the window with the two loops exchanged (columns outside)
WindowPosColumnMajor(k) == <<(k % WindowSize) + 1, (k \div WindowSize) + 1>>

RECURSIVE ScanWindowColumnMajor(_, _)
ScanStepColumnMajor(ws, k, date_value) ==
    IF date_value # NoDate THEN date_value ELSE ScanWindowColumnMajor(ws, k + 1)

ScanWindowColumnMajor(ws, k) ==
    IF k >= WindowSize * WindowSize THEN NoDate
    ELSE ScanStepColumnMajor(ws, k, CellDate(CellAt(ws, WindowPosColumnMajor(k)).value))

\* a faulty variant: the window is scanned column by column
extract_date_column_major(ws) == ScanWindowColumnMajor(ws, 0)

extract_date_from_sheet(ws) == ScanWindow(ws, 0)

-----------------------------------------------------------------------------
(* Worksheets                                                              *)

\* a worksheet with these cells and no merged range or dimension
Sheet(title, cells) ==
    [title |-> title, cells |-> cells, merged_cells |-> {},
     column_dimensions |-> [c \in {} |-> 0], row_dimensions |-> [r \in {} |-> 0]]

\* a cell holding a value, unstyled
ValueCell(v) == [value |-> v, style |-> DefaultStyle, merged |-> FALSE]

\* the history of a run, for stating the properties
NoHist ==
    [tab1_before |-> Sheet(<< >>, [p \in {} |-> DefaultCell]),
     tabs |-> << >>, attempted |-> << >>, outcomes |-> << >>, contents |-> << >>, opened |-> 0,
     error_stage |-> "none", tab_missing |-> {}, started |-> {}, names_before |-> {}, client |-> 0,
     base_names |-> << >>, saved |-> FALSE]

-----------------------------------------------------------------------------
(* The date resolver on its own                                            *)

batch_vars == <<client_files, clients_from_account_list, client_data, bpc, ci,
                successful_clients, failed_clients>>

\* create_summary_files is not running
NoBatch ==
    /\ client_files = << >>
    /\ clients_from_account_list = << >>
    /\ client_data = << >>
    /\ bpc = "idle"
    /\ ci = 0
    /\ successful_clients = << >>
    /\ failed_clients = << >>

\* the rows and columns a date-resolver input may use (one row past the window)
DateRows == 6
DateCols == 2

DatePositions == (1..DateRows) \X (1..DateCols)

DateValues ==
    { Dt(2024, 1, 5), Dt(2023, 12, 31),
      Str(<<"2", "0", "2", "4", "-", "0", "3", "-", "0", "4">>),
      Str(<<"0", "3", "/", "0", "4", "/", "2", "0", "2", "4">>),
      Str(<<"1", "3", "/", "0", "4", "/", "2", "0", "2", "4">>),
      Str(<<"2", "0", "2", "4", "0", "2", "2", "9">>),
      Str(<<"2", "0", "2", "3", "-", "0", "2", "-", "2", "9">>),
      Str(<<"n", "o", "t", "e">>),
      Num(20240101) }

\* the sheets with a value in one cell or in two
DateSheets ==
    { Sheet(<<"S">>, p :> ValueCell(v) @@ q :> ValueCell(w)) :
        p \in DatePositions, q \in DatePositions, v \in DateValues, w \in DateValues }

InitDate ==
    /\ client_ws \in DateSheets
    /\ sheet_date = NoDate
    /\ pc = "DateInput"
    /\ summary_wb = << >>
    /\ template_wb = << >>
    /\ fi = 0
    /\ tabs_created = 0
    /\ client_files_list = << >>
    /\ hist = NoHist
    /\ NoBatch

\* a call of extract_date_from_sheet
ExtractDate ==
    /\ pc = "DateInput"
    /\ sheet_date' = extract_date_from_sheet(client_ws)
    /\ pc' = "DateDone"
    /\ UNCHANGED <<template_wb, summary_wb, client_files_list, fi, tabs_created, client_ws, hist>>
    /\ UNCHANGED batch_vars

SpecDate == InitDate /\ [][ExtractDate]_vars

\* the window's positions before p in row-major order
Before(p) == { q \in (1..WindowSize) \X (1..WindowSize) :
                 q[1] < p[1] \/ (q[1] = p[1] /\ q[2] < p[2]) }

InWindow(p) == p[1] \in 1..WindowSize /\ p[2] \in 1..WindowSize

IsNativeDate(v) == v.t = "datetime"

\* a text one of the four formats parses
IsDateText(v) == v.t = "str" /\ \E f \in DOMAIN DateFormats : strptime(v.s, DateFormats[f]).ok

WindowCells(ws) == { p \in DOMAIN ws.cells : InWindow(p) }

\* C9 (as stated): when the window holds a native date, the result is the
\* YYYYMMDD form of the first native date in row-major order, wherever
\* date-like texts sit; a text is used only when the window holds no native date
C9_NativeDateWins ==
    pc = "DateDone" =>
        \A p \in WindowCells(client_ws) :
            (/\ IsNativeDate(client_ws.cells[p].value)
             /\ \A q \in WindowCells(client_ws) \cap Before(p) : ~IsNativeDate(client_ws.cells[q].value))
            => sheet_date = strftime(client_ws.cells[p].value.d)

\* C9 (amended): the result is the YYYYMMDD form of the first cell of the window,
\* in row-major order, that holds a native date or a text one of the four
\* formats parses (a native date wins over the texts after it, not over those
\* before it); the result is none exactly when the window holds neither
C9_FirstDateLikeCellWins ==
    pc = "DateDone" =>
        /\ \A p \in WindowCells(client_ws) :
            LET v == client_ws.cells[p].value
            IN (/\ IsNativeDate(v) \/ IsDateText(v)
                /\ \A q \in WindowCells(client_ws) \cap Before(p) :
                      ~IsNativeDate(client_ws.cells[q].value) /\ ~IsDateText(client_ws.cells[q].value))
               => sheet_date = (IF IsNativeDate(v) THEN strftime(v.d) ELSE TryFormats(v.s, 1))
        /\ (sheet_date = NoDate) <=>
              \A p \in WindowCells(client_ws) :
                  ~IsNativeDate(client_ws.cells[p].value) /\ ~IsDateText(client_ws.cells[p].value)

\* a native date in the window after a date-like text, and a date past the window
C9_Witness ==
    /\ pc = "DateDone"
    /\ \E p \in WindowCells(client_ws), q \in WindowCells(client_ws) :
          /\ q \in Before(p)
          /\ q[1] = p[1] - 1 /\ q[2] = p[2] + 1
          /\ IsNativeDate(client_ws.cells[p].value)
          /\ IsDateText(client_ws.cells[q].value)
          /\ sheet_date = TryFormats(client_ws.cells[q].value.s, 1)
          /\ sheet_date # strftime(client_ws.cells[p].value.d)

-----------------------------------------------------------------------------
(* The tab label of lines 232-239                                          *)

\* line 233: Excel's limit on a sheet title
ExcelTitleLimit == 31

\* line 237: f"_{counter}"
Suffix(counter) == <<"_">> \o DecimalDigits(counter)

\* a faulty variant: the suffix is appended to the whole name, which is not shortened
CandidateNotShortened(original_name, counter) == original_name \o Suffix(counter)

\* line 238: f"{original_name[:31-len(suffix)]}{suffix}"
Candidate(original_name, counter) ==
    Prefix(original_name, ExcelTitleLimit - Len(Suffix(counter))) \o Suffix(counter)

RECURSIVE UniqueLoop(_, _, _, _)
\* lines 236-239: the while loop, entered with new_tab_name and counter
UniqueLoop(new_tab_name, original_name, names, counter) ==
    IF new_tab_name \notin names THEN new_tab_name
    ELSE UniqueLoop(Candidate(original_name, counter), original_name, names, counter + 1)

\* lines 234-239, for the name truncated at line 233
UniqueFrom(original_name, names) == UniqueLoop(original_name, original_name, names, 1)

\* lines 233-239: the label for a desired name, given the workbook's sheet names
UniqueTabName(desired, names) == UniqueFrom(Prefix(desired, ExcelTitleLimit), names)

-----------------------------------------------------------------------------
(* copy_tab1_format_with_client_data                                       *)

\* the characters openpyxl refuses in a sheet title (a ValueError)
InvalidTitle(title) == \E i \in 1..Len(title) : title[i] \in {"\\", "*", "?", ":", "/", "[", "]"}

\* line 67: Workbook.create_sheet, for a title that is valid and not yet used
create_sheet(wb, title) == Append(wb, Sheet(title, [p \in {} |-> DefaultCell]))

\* a merged range <<first row, first column, last row, last column>>
RangeCells(rg) == (rg[1]..rg[3]) \X (rg[2]..rg[4])

Anchor(rg) == <<rg[1], rg[2]>>

\* the sides of the range that the cell p lies on
EdgeSides(rg, p) ==
    (IF p[1] = rg[1] THEN {"top"} ELSE {}) \cup (IF p[1] = rg[3] THEN {"bottom"} ELSE {})
    \cup (IF p[2] = rg[2] THEN {"left"} ELSE {}) \cup (IF p[2] = rg[4] THEN {"right"} ELSE {})

\* line 93: Worksheet.merge_cells. Every cell of the range but its top-left one
\* is replaced by a fresh MergedCell, which takes from the top-left cell the
\* border lines of the sides it lies on, and its protection
MergeWithAnchor(ws, rg, a) ==
    [ws EXCEPT
        !.cells = [p \in (DOMAIN ws.cells) \cup RangeCells(rg) |->
            IF p \in RangeCells(rg) \ {Anchor(rg)}
            THEN [value |-> None, merged |-> TRUE,
                  style |-> [DefaultStyle EXCEPT !.border = a.style.border \cap EdgeSides(rg, p),
                                                 !.protection = a.style.protection]]
            ELSE CellAt(ws, p)],
        !.merged_cells = @ \cup {rg}]

merge_cells(ws, rg) == MergeWithAnchor(ws, rg, CellAt(ws, Anchor(rg)))

RECURSIVE MergeAll(_, _)
MergeNext(ws, ranges, rg) == MergeAll(merge_cells(ws, rg), ranges \ {rg})

\* lines 92-93
MergeAll(ws, ranges) ==
    IF ranges = {} THEN ws ELSE MergeNext(ws, ranges, CHOOSE x \in ranges : TRUE)

\* lines 70-81: a cell for every cell of tab1, with tab1's style where it has one
CopyFormatting(new_ws, tab1_ws) ==
    [new_ws EXCEPT !.cells = [p \in (DOMAIN new_ws.cells) \cup (DOMAIN tab1_ws.cells) |->
        IF p \in DOMAIN tab1_ws.cells /\ has_style(tab1_ws.cells[p])
        THEN [CellAt(new_ws, p) EXCEPT !.style = tab1_ws.cells[p].style]
        ELSE CellAt(new_ws, p)]]

\* lines 84-89
CopyDimensions(new_ws, tab1_ws) ==
    [new_ws EXCEPT !.column_dimensions = tab1_ws.column_dimensions,
                   !.row_dimensions = tab1_ws.row_dimensions]

\* openpyxl's is_date_format, on the number formats of the model
is_date_format(fmt) == fmt \in {"yyyy-mm-dd", "yyyy-mm-dd h:mm:ss", "mm-dd-yy"}

\* line 100: Cell.value = v. Binding a datetime to a cell whose number format is
\* not a date format sets the number format to the ISO date-time format
SetValue(cell, v) ==
    [cell EXCEPT !.value = v,
                 !.style.number_format =
                     IF v.t = "datetime" /\ ~is_date_format(@) THEN "yyyy-mm-dd h:mm:ss" ELSE @]

RowMajorBefore(q, p) == q[1] < p[1] \/ (q[1] = p[1] /\ q[2] < p[2])

\* lines 96-98: the cells of the data sheet that hold a value
ValuedCells(ws) == { p \in DOMAIN ws.cells : ws.cells[p].value # None }

\* the valued data cells whose target is a MergedCell: assigning to its value
\* raises AttributeError (the attribute is read-only)
BlockedCells(target_ws, data_ws) == { p \in ValuedCells(data_ws) : CellAt(target_ws, p).merged }

\* the valued cells before the first blocked one, all of them when none is blocked
CellsBeforeBlocked(valued, blocked) ==
    IF blocked = {} THEN valued
    ELSE { p \in valued : \E b \in blocked :
              RowMajorBefore(p, b) /\ \A q \in blocked : q = b \/ RowMajorBefore(b, q) }

\* the data cells the loop of lines 96-100 writes before it ends or raises
WrittenCells(new_ws, data_ws) ==
    CellsBeforeBlocked(ValuedCells(data_ws), BlockedCells(new_ws, data_ws))

\* the sheet with the values of the data sheet at the cells written
WriteCells(target_ws, data_ws, written) ==
    [target_ws EXCEPT !.cells = [p \in (DOMAIN target_ws.cells) \cup written |->
        IF p \in written
        THEN SetValue(CellAt(target_ws, p), data_ws.cells[p].value)
        ELSE CellAt(target_ws, p)]]

\* a faulty variant: line 99 takes the target cell from tab1
OverlayTargetTab1(wb) == SheetIndex(wb, <<"t", "a", "b", "1">>)

\* line 99: the sheet whose cells receive the values, new_ws (the last sheet)
OverlayTarget(wb) == Len(wb)

\* lines 64-103 on the workbook: the workbook afterwards, and whether the
\* function raised (the new sheet is in the workbook from line 67 on)
\* lines 96-100 on the workbook wb whose last sheet is new_ws: the values go to
\* the cells of the sheet OverlayTarget names; a MergedCell of new_ws ends the loop
OverlayData(wb, data_ws, t, written) ==
    [wb |-> [wb EXCEPT ![t] = WriteCells(wb[t], data_ws, written)],
     raised |-> written # ValuedCells(data_ws)]

\* lines 69-93: new_ws with tab1's styles, dimensions and merged ranges
Formatted(new_ws, tab1_ws) ==
    MergeAll(CopyDimensions(CopyFormatting(new_ws, tab1_ws), tab1_ws), tab1_ws.merged_cells)

\* lines 69-100, wb being the workbook after line 67
FormatAndFill(wb, tab1_ws, data_ws, new_ws) ==
    OverlayData([wb EXCEPT ![Len(wb)] = new_ws], data_ws, OverlayTarget(wb),
                WrittenCells(new_ws, data_ws))

\* lines 64-103 on the workbook: the workbook afterwards, and whether the
\* function raised (the new sheet is in the workbook from line 67 on)
copy_tab1_format_with_client_data(source_wb, tab1_ws, data_ws, new_tab_name) ==
    FormatAndFill(create_sheet(source_wb, new_tab_name), tab1_ws, data_ws,
                  Formatted(Sheet(new_tab_name, [p \in {} |-> DefaultCell]), tab1_ws))

-----------------------------------------------------------------------------
(* File names                                                              *)

RECURSIVE LastIndexOf(_, _, _)
\* the last position <= i of ch in s, 0 when there is none
LastIndexOf(s, ch, i) ==
    IF i = 0 THEN 0 ELSE IF s[i] = ch THEN i ELSE LastIndexOf(s, ch, i - 1)

\* name.split('_')[:-1] joined by '_', for a name whose last '_' is at u (0: none)
AllButLastPart(name, u) == IF u > 0 THEN Slice(name, 1, u - 1) ELSE name

\* name.split('_')[-1], or "" when the name has one part
LastPart(name, u) == IF u > 0 THEN Slice(name, u + 1, Len(name)) ELSE << >>

\* a path is [base, ext]: the file's name without its extension, and the extension
\* lines 147-156
extract_client_name(f) == AllButLastPart(f.base, LastIndexOf(f.base, "_", Len(f.base)))

\* lines 158-165
extract_date_from_filename(f) == LastPart(f.base, LastIndexOf(f.base, "_", Len(f.base)))

\* the code point of a character of a file name of the model
CodePoint(ch) ==
    IF IsDigit(ch) THEN 48 + DigitVal(ch)
    ELSE CASE ch = "[" -> 91 [] ch = "]" -> 93 [] ch = "_" -> 95
           [] ch = "a" -> 97 [] ch = "b" -> 98 [] ch = "c" -> 99 [] ch = "e" -> 101
           [] ch = "l" -> 108 [] ch = "m" -> 109 [] ch = "o" -> 111 [] ch = "s" -> 115

\* Python's a < b on texts: at the first position where they differ a has the
\* lesser code point, or a ends there
StrLess(a, b) ==
    \E i \in 1..Len(b) :
        /\ i <= Len(a) + 1
        /\ \A j \in 1..(i - 1) : a[j] = b[j]
        /\ (i = Len(a) + 1 \/ CodePoint(a[i]) < CodePoint(b[i]))

\* x put into the list before its element at position at
InsertAt(sorted, x, at) == Slice(sorted, 1, at - 1) \o <<x>> \o Slice(sorted, at, Len(sorted))

\* the least of the positions, Len(sorted) + 1 when there is none
FirstOf(later, sorted) ==
    IF later = {} THEN Len(sorted) + 1 ELSE CHOOSE i \in later : \A j \in later : i <= j

\* the positions of the files whose date token is greater than key
LaterThan(sorted, key) ==
    { i \in 1..Len(sorted) : StrLess(key, extract_date_from_filename(sorted[i])) }

\* x put into a list sorted by date token, after the files whose token is not greater
InsertByDate(sorted, x) ==
    InsertAt(sorted, x, FirstOf(LaterThan(sorted, extract_date_from_filename(x)), sorted))

RECURSIVE SortByDate(_)
\* line 201: client_files_list.sort(key=extract_date_from_filename), a stable sort
SortByDate(files) ==
    IF files = << >> THEN << >>
    ELSE InsertByDate(SortByDate(Slice(files, 1, Len(files) - 1)), files[Len(files)])

\* lines 281-284: the file f of the client called name added to the groups
AddToGroup(acc, f, name) ==
    IF \E i \in 1..Len(acc) : acc[i].name = name
    THEN [i \in 1..Len(acc) |-> IF acc[i].name = name
                                 THEN [acc[i] EXCEPT !.files = Append(@, f)] ELSE acc[i]]
    ELSE Append(acc, [name |-> name, files |-> <<f>>])

RECURSIVE GroupByClient(_, _)
\* lines 279-284: the files of each client, clients in the order first seen
GroupByClient(files, acc) ==
    IF files = << >> THEN acc
    ELSE GroupByClient(Tail(files), AddToGroup(acc, Head(files), extract_client_name(Head(files))))

RECURSIVE FilterByRoster(_, _)
\* lines 287-294
FilterByRoster(groups, roster) ==
    IF groups = << >> THEN << >>
    ELSE (IF \E i \in 1..Len(roster) : roster[i] = Head(groups).name THEN <<Head(groups)>> ELSE << >>)
         \o FilterByRoster(Tail(groups), roster)

-----------------------------------------------------------------------------
(* create_summary_for_client and create_summary_files                      *)

Tab1Name == <<"t", "a", "b", "1">>

CalculationsName == <<"C", "a", "l", "c", "u", "l", "a", "t", "i", "o", "n", "s">>

\* line 185
sheets_to_remove == {CalculationsName}

RECURSIVE RemoveSheets(_, _)
\* lines 186-188
RemoveSheets(wb, names) ==
    IF wb = << >> THEN << >>
    ELSE (IF Head(wb).title \in names THEN << >> ELSE <<Head(wb)>>) \o RemoveSheets(Tail(wb), names)

\* a file's content: whether load_workbook reads it, and its active sheet
Readable(ws) == [readable |-> TRUE, ws |-> ws]

Unreadable == [readable |-> FALSE, ws |-> Sheet(<< >>, [p \in {} |-> DefaultCell])]

\* lines 219-230: the tab name, from the sheet's date, the file name's date
\* token, or the file's name
TabNameFrom(filepath, date_in_sheet, date_in_name) ==
    IF date_in_sheet # NoDate THEN date_in_sheet
    ELSE IF date_in_name # << >> THEN date_in_name
    ELSE filepath.base

DesiredTabName(filepath, data_ws) ==
    TabNameFrom(filepath, extract_date_from_sheet(data_ws), extract_date_from_filename(filepath))

\* what a turn of the loop did: the workbook afterwards, whether the body ran to
\* its end, whether a sheet was created, and its name
Transplanted(r, new_tab_name) ==
    [wb |-> r.wb, ok |-> ~r.raised, created |-> TRUE, name |-> new_tab_name]

\* lines 241-246 for the tab name of lines 232-239; create_sheet raises
\* ValueError for a title with a character Excel does not allow
ProcessNamed(wb, data_ws, new_tab_name) ==
    IF InvalidTitle(new_tab_name)
    THEN [wb |-> wb, ok |-> FALSE, created |-> FALSE, name |-> new_tab_name]
    ELSE Transplanted(copy_tab1_format_with_client_data(wb, wb[SheetIndex(wb, Tab1Name)],
                                                        data_ws, new_tab_name),
                      new_tab_name)

\* lines 208-246, for a file that load_workbook reads
ProcessReadable(wb, filepath, data_ws) ==
    ProcessNamed(wb, data_ws, UniqueTabName(DesiredTabName(filepath, data_ws), SheetNameSet(wb)))

\* lines 208-246: load_workbook raises for a file it cannot read
ProcessContent(wb, filepath, content) ==
    IF content.readable THEN ProcessReadable(wb, filepath, content.ws)
    ELSE [wb |-> wb, ok |-> FALSE, created |-> FALSE, name |-> << >>]

\* a faulty variant: an exception in the loop body is not caught
ExceptionEscapes == FALSE

\* lines 248-250: "except Exception ... continue" catches what the body raises
ExceptClauseCatches == TRUE

\* a faulty variant: line 195 returns True
MissingTabReturnsTrue == TRUE

\* line 195: the value returned when tab1 is missing
MissingTabResult == FALSE

\* lines 305-309 and the loop's step to the next client
RecordOutcome(success) ==
    /\ successful_clients' =
          IF success THEN Append(successful_clients, client_data[ci].name) ELSE successful_clients
    /\ failed_clients' =
          IF success THEN failed_clients ELSE Append(failed_clients, client_data[ci].name)
    /\ ci' = ci + 1

\* an exception leaves create_summary_for_client and create_summary_files: the
\* run ends with a traceback
Crash(stage) ==
    /\ bpc' = "crashed"
    /\ pc' = "Raised"
    /\ hist' = [hist EXCEPT !.error_stage = stage]

\* lines 287-294
Filtered(grouped) ==
    IF clients_from_account_list # << >>
    THEN FilterByRoster(grouped, clients_from_account_list) ELSE grouped

\* lines 263-265, 274-276, 296-298: the early returns, or the loop over the clients
Organized(filtered) ==
    IF template_wb = << >> \/ client_files = << >> \/ filtered = << >>
    THEN bpc' = "returned" /\ client_data' = << >> /\ ci' = 0
    ELSE bpc' = "clients" /\ client_data' = filtered /\ ci' = 1

\* lines 262-298
Organize ==
    /\ bpc = "start"
    /\ Organized(Filtered(GroupByClient(client_files, << >>)))
    /\ UNCHANGED <<template_wb, client_files, clients_from_account_list, successful_clients,
                   failed_clients, pc, summary_wb, client_files_list, fi, tabs_created,
                   client_ws, sheet_date, hist>>

\* lines 172-179: copy Template.xlsx and load the copy; either may raise
CopyTemplate ==
    /\ bpc = "clients"
    /\ ci <= Len(client_data)
    /\ pc \in {"Init", "Saved", "Failed"}
    /\ \/ /\ summary_wb' = template_wb
          /\ pc' = "TemplateCopied"
          /\ hist' = [NoHist EXCEPT !.tab_missing = hist.tab_missing,
                                    !.started = hist.started \cup {ci},
                                    !.client = ci]
          /\ bpc' = bpc
       \/ /\ \E stage \in {"copy", "load"} :
                /\ bpc' = "crashed"
                /\ pc' = "Raised"
                /\ hist' = [NoHist EXCEPT !.tab_missing = hist.tab_missing,
                                          !.started = hist.started \cup {ci},
                                          !.client = ci,
                                          !.error_stage = stage]
          /\ summary_wb' = << >>
    /\ client_files_list' = << >>
    /\ fi' = 0
    /\ tabs_created' = 0
    /\ UNCHANGED <<template_wb, client_files, clients_from_account_list, client_data, ci,
                   successful_clients, failed_clients, client_ws, sheet_date>>

\* line 182
Sanitize ==
    /\ pc = "TemplateCopied"
    /\ summary_wb' = remove_external_links(summary_wb)
    /\ pc' = "Sanitized"
    /\ UNCHANGED <<template_wb, client_files_list, fi, tabs_created, client_ws, sheet_date, hist>>
    /\ UNCHANGED batch_vars

\* lines 185-189
Prune ==
    /\ pc = "Sanitized"
    /\ summary_wb' = RemoveSheets(summary_wb, sheets_to_remove)
    /\ pc' = "SheetsPruned"
    /\ UNCHANGED <<template_wb, client_files_list, fi, tabs_created, client_ws, sheet_date, hist>>
    /\ UNCHANGED batch_vars

\* lines 192-195: tab1 is missing, the client ends
TemplateTabMissing ==
    /\ pc = "SheetsPruned"
    /\ Tab1Name \notin SheetNameSet(summary_wb)
    /\ pc' = "Failed"
    /\ RecordOutcome(MissingTabResult)
    /\ hist' = [hist EXCEPT !.tab_missing = @ \cup {ci}]
    /\ UNCHANGED <<template_wb, client_files, clients_from_account_list, client_data, bpc,
                   summary_wb, client_files_list, fi, tabs_created, client_ws, sheet_date>>

\* lines 198-204: tab1 is there; the files are sorted and the loop starts
StartFiles ==
    /\ pc = "SheetsPruned"
    /\ Tab1Name \in SheetNameSet(summary_wb)
    /\ client_files_list' = SortByDate(client_data[ci].files)
    /\ fi' = 1
    /\ tabs_created' = 0
    /\ pc' = "IteratingFiles"
    /\ hist' = [hist EXCEPT !.tab1_before = summary_wb[SheetIndex(summary_wb, Tab1Name)],
                            !.base_names = sheetnames(summary_wb)]
    /\ UNCHANGED <<template_wb, summary_wb, client_ws, sheet_date>>
    /\ UNCHANGED batch_vars

\* the history after a turn of the loop that did r
Recorded(filepath, content, r) ==
    [hist EXCEPT
        !.attempted = Append(@, filepath),
        !.outcomes = Append(@, r.ok),
        !.contents = Append(@, content),
        !.opened = @ + 1,
        !.names_before = SheetNameSet(summary_wb),
        !.tabs = IF r.created
                 THEN Append(@, [name |-> r.name, ws |-> content.ws, raised |-> ~r.ok])
                 ELSE @]

\* lines 246-250: the end of a turn that did r
EndTurn(r, h) ==
    /\ summary_wb' = r.wb
    /\ tabs_created' = IF r.ok THEN tabs_created + 1 ELSE tabs_created
    /\ IF r.ok \/ ExceptClauseCatches
       THEN /\ fi' = fi + 1
            /\ pc' = pc
            /\ bpc' = bpc
            /\ hist' = h
       ELSE /\ fi' = fi
            /\ pc' = "Raised"
            /\ bpc' = IF bpc = "clients" THEN "crashed" ELSE bpc
            /\ hist' = [h EXCEPT !.error_stage = "file"]

TurnFor(filepath, content, r) == EndTurn(r, Recorded(filepath, content, r))

\* lines 205-250: one turn of the loop, for a file whose content is one of Contents
ProcessFileFrom(Contents) ==
    /\ pc = "IteratingFiles"
    /\ fi <= Len(client_files_list)
    /\ \E content \in Contents :
          TurnFor(client_files_list[fi], content,
                  ProcessContent(summary_wb, client_files_list[fi], content))
    /\ UNCHANGED <<template_wb, client_files, clients_from_account_list, client_data, ci,
                   successful_clients, failed_clients, client_files_list, client_ws, sheet_date>>

\* lines 252-256: the save, which may raise, and the return of True
SaveWorkbook ==
    /\ pc = "IteratingFiles"
    /\ fi > Len(client_files_list)
    /\ bpc = "clients"
    /\ \/ /\ pc' = "Saved"
          /\ hist' = [hist EXCEPT !.saved = TRUE]
          /\ RecordOutcome(TRUE)
          /\ bpc' = bpc
       \/ /\ Crash("save")
          /\ UNCHANGED <<successful_clients, failed_clients, ci>>
    /\ UNCHANGED <<template_wb, client_files, clients_from_account_list, client_data,
                   summary_wb, client_files_list, fi, tabs_created, client_ws, sheet_date>>

\* lines 311-322: the final report
Report ==
    /\ bpc = "clients"
    /\ ci > Len(client_data)
    /\ pc \in {"Init", "Saved", "Failed"}
    /\ bpc' = "reported"
    /\ UNCHANGED <<template_wb, client_files, clients_from_account_list, client_data, ci,
                   successful_clients, failed_clients, pc, summary_wb, client_files_list, fi,
                   tabs_created, client_ws, sheet_date, hist>>

-----------------------------------------------------------------------------
(* The batch: templates, input files and their contents                    *)

BoldStyle ==
    [font |-> "bold", border |-> {"top", "left", "right", "bottom"}, fill |-> "yellow",
     number_format |-> "General", protection |-> "unlocked", alignment |-> "center"]

NumberStyle == [DefaultStyle EXCEPT !.number_format = "0.00"]

DateStyle == [DefaultStyle EXCEPT !.number_format = "yyyy-mm-dd", !.font = "bold"]

Styled(v, st) == [value |-> v, style |-> st, merged |-> FALSE]

\* what load_workbook makes of a sheet stored with these cells, dimensions and
\* merged ranges (the reader binds the merged ranges as merge_cells does)
Loaded(title, cells, widths, heights, ranges) ==
    MergeAll([Sheet(title, cells) EXCEPT !.column_dimensions = widths, !.row_dimensions = heights],
             ranges)

ExternalFormula == Str(<<"=", "[", "b", ".", "x", "l", "s", "x", "]", "S", "!", "A", "1">>)

\* a tab1 with a title merged over A1:B1 and a formula that refers to another workbook
Tab1Merged ==
    Loaded(Tab1Name,
           <<1, 1>> :> Styled(Str(<<"T">>), BoldStyle) @@ <<1, 2>> :> Styled(None, BoldStyle)
             @@ <<2, 1>> :> Styled(ExternalFormula, NumberStyle) @@ <<2, 2>> :> Styled(None, DateStyle),
           1 :> 10 @@ 2 :> 15, 1 :> 20, {<<1, 1, 1, 2>>})

\* a tab1 that styles A1 only
Tab1Plain ==
    Loaded(Tab1Name, <<1, 1>> :> Styled(Str(<<"T">>), BoldStyle), 1 :> 10, [r \in {} |-> 0], {})

CalculationsSheet ==
    Loaded(CalculationsName, <<1, 1>> :> Styled(ExternalFormula, DefaultStyle),
           [c \in {} |-> 0], [r \in {} |-> 0], {})

OtherSheet ==
    Loaded(<<"O">>, <<1, 1>> :> Styled(Num(1), DefaultStyle), [c \in {} |-> 0], [r \in {} |-> 0], {})

\* Template.xlsx: with tab1 and Calculations, with tab1 and another sheet,
\* without tab1, and absent
BatchTemplates ==
    { <<Tab1Merged, CalculationsSheet>>, <<OtherSheet, Tab1Plain>>,
      <<CalculationsSheet, OtherSheet>>, << >> }

\* a date in A1, values in row 2
DataDated ==
    Sheet(<<"S">>, <<1, 1>> :> ValueCell(Dt(2024, 1, 5)) @@ <<1, 2>> :> ValueCell(None)
                     @@ <<2, 1>> :> ValueCell(Str(<<"x">>)) @@ <<2, 2>> :> ValueCell(Num(7)))

\* no date; a value in B1
DataRow1 ==
    Sheet(<<"S">>, <<1, 1>> :> ValueCell(Str(<<"n">>)) @@ <<1, 2>> :> ValueCell(Num(3))
                     @@ <<2, 1>> :> ValueCell(Str(<<"y">>)) @@ <<2, 2>> :> ValueCell(None))

\* the date of DataDated as a text, and a value outside a 2 x 2 template
DataTextDate ==
    Sheet(<<"S">>, <<1, 1>> :> ValueCell(Str(<<"2", "0", "2", "4", "-", "0", "1", "-", "0", "5">>))
                     @@ <<3, 3>> :> ValueCell(Str(<<"z">>)))

BatchContents == { Unreadable, Readable(DataDated), Readable(DataRow1), Readable(DataTextDate) }

File(base, ext) == [base |-> base, ext |-> ext]

\* the files of client_portfolio
BatchFiles ==
    { File(<<"a", "c", "m", "e", "_", "2">>, "xlsx"),
      File(<<"a", "c", "m", "e", "_", "1">>, "xlsx"),
      File(<<"a", "c", "m", "e", "_", "1">>, "xlsm"),
      File(<<"b", "_", "[", "3", "]">>, "xlsx"),
      File(<<"s", "o", "l", "o">>, "xlsx") }

\* the most files client_portfolio holds
MaxFiles == 3

\* lines 137-142: the files of one pattern after the other, no file twice
FileListings ==
    { fs \in UNION { [1..n -> BatchFiles] : n \in 0..MaxFiles } :
        /\ \A i, j \in 1..Len(fs) : i # j => fs[i] # fs[j]
        /\ \A i, j \in 1..Len(fs) : (i < j /\ fs[i].ext = "xlsm") => fs[j].ext = "xlsm" }

\* what read_account_list returns: nothing, or a roster
Rosters == { << >>, << <<"a", "c", "m", "e">>, <<"s", "o", "l", "o">> >> }

Init ==
    /\ template_wb \in BatchTemplates
    /\ client_files \in FileListings
    /\ clients_from_account_list \in Rosters
    /\ client_data = << >>
    /\ bpc = "start"
    /\ ci = 0
    /\ successful_clients = << >>
    /\ failed_clients = << >>
    /\ pc = "Init"
    /\ summary_wb = << >>
    /\ client_files_list = << >>
    /\ fi = 0
    /\ tabs_created = 0
    /\ client_ws = Sheet(<< >>, [p \in {} |-> DefaultCell])
    /\ sheet_date = NoDate
    /\ hist = NoHist

ProcessFile == ProcessFileFrom(BatchContents)

Next ==
    \/ Organize
    \/ CopyTemplate
    \/ Sanitize
    \/ Prune
    \/ TemplateTabMissing
    \/ StartFiles
    \/ ProcessFile
    \/ SaveWorkbook
    \/ Report

Spec == Init /\ [][Next]_vars

-----------------------------------------------------------------------------
(* Properties of the batch                                                 *)

\* the turns of the client's loop that ran to the end of the body
Successes == { i \in 1..Len(hist.outcomes) : hist.outcomes[i] }

\* the tabs the client's loop added to the workbook
TabsAdded == Len(summary_wb) - Len(hist.base_names)

\* C5: when a client's workbook is saved, its sheets are the sheets of the
\* pruned template plus one tab for each file processed without a failure, a
\* file whose processing failed contributes no tab, and the count of tabs
\* reported is the number of tabs added
C5_OutputTabSet ==
    pc = "Saved" =>
        /\ SubSeq(sheetnames(summary_wb), 1, Len(hist.base_names)) = hist.base_names
        /\ TabsAdded = Cardinality(Successes)
        /\ tabs_created = TabsAdded

\* a file the loop body can process: load_workbook reads it, its tab name is a
\* title Excel allows, and none of its values falls on a merged cell of tab1
\* other than the top-left one
Processable(filepath, content) ==
    /\ content.readable
    /\ ~InvalidTitle(DesiredTabName(filepath, content.ws))
    /\ BlockedCells(hist.tab1_before, content.ws) = {}

\* C6: every file of the client's list is attempted, in ascending order of the
\* date token of its name; a file that can be processed gets its tab whatever
\* happened to the files before it; a failure of one file never ends the loop,
\* and the workbook is saved only after every file was attempted
C6_PerFileIsolation ==
    /\ hist.error_stage # "file"
    /\ pc \in {"IteratingFiles", "Saved"} =>
          /\ hist.attempted = SubSeq(client_files_list, 1, fi - 1)
          /\ \A i, j \in 1..Len(client_files_list) :
                i < j => ~StrLess(extract_date_from_filename(client_files_list[j]),
                                  extract_date_from_filename(client_files_list[i]))
          /\ \A f \in Range(client_data[ci - (IF pc = "Saved" THEN 1 ELSE 0)].files) :
                \E i \in 1..Len(client_files_list) : client_files_list[i] = f
          /\ \A i \in 1..Len(hist.attempted) :
                hist.outcomes[i] <=> Processable(hist.attempted[i], hist.contents[i])
          /\ \A k \in 1..Len(hist.tabs) :
                ~hist.tabs[k].raised => hist.tabs[k].name \in SheetNameSet(summary_wb)
          /\ Cardinality({ k \in 1..Len(hist.tabs) : ~hist.tabs[k].raised }) = Cardinality(Successes)
          /\ pc = "Saved" => Len(hist.attempted) = Len(client_files_list)

\* a saved workbook whose first file failed and whose second file, later by
\* its date token though earlier in the listing, got its tab
C6_Witness ==
    /\ pc = "Saved"
    /\ Len(hist.outcomes) >= 2
    /\ ~hist.outcomes[1]
    /\ hist.outcomes[2]
    /\ hist.attempted # client_data[ci - 1].files
    /\ hist.tabs[Len(hist.tabs)].name \in SheetNameSet(summary_wb)

\* C7: an error raised at the client level (copying or opening the template
\* copy, persisting the workbook) makes the client a failed client and never
\* ends the batch
C7_ClientErrorsIsolated ==
    hist.error_stage \in {"copy", "load", "save"} =>
        /\ bpc # "crashed"
        /\ client_data[hist.client].name \in Range(failed_clients)

\* C8: a client whose template copy has no tab1 after pruning ends failed, with
\* no input file opened and no tab added; it is listed as failed and not as
\* successful, the batch goes on to the next client, and a batch that reports
\* has started every client
C8_MissingTemplateTab ==
    /\ \A c \in hist.tab_missing :
          /\ client_data[c].name \in Range(failed_clients)
          /\ client_data[c].name \notin Range(successful_clients)
    /\ pc = "Failed" =>
          /\ hist.client \in hist.tab_missing
          /\ hist.opened = 0
          /\ hist.tabs = << >>
          /\ summary_wb = RemoveSheets(remove_external_links(template_wb), sheets_to_remove)
          /\ bpc \in {"clients", "reported"}
          /\ ci = hist.client + 1
    /\ bpc = "reported" => hist.started = 1..Len(client_data)

\* a batch of two clients without tab1 that reported
C8_Witness ==
    /\ bpc = "reported"
    /\ pc = "Failed"
    /\ Cardinality(hist.tab_missing) >= 2
    /\ Len(failed_clients) >= 2

-----------------------------------------------------------------------------
(* The sanitizer on its own                                                *)

SanitizerValues ==
    { ExternalFormula,
      Str(<<"=", "'", "S", " ", "2", "'", "!", "A", "1">>),
      Str(<<"=", "'", "[", "b", ".", "x", "l", "s", "x", "]", "S", "'", "!", "A", "1">>),
      Str(<<"s", "e", "e", " ", "[", "n", "o", "t", "e", "s", "]">>),
      Str(<<"[", "b", ".", "x", "l", "s", "x", "]", " ", "'", "q", "'">>),
      Str(<<"=", "T", "[", "c", "]">>),
      Str(<<"=", "'", "q", "'", "&", "T", "[", "c", "]">>),
      Str(<<"=", "A", "1", "+", "1">>),
      Str(<<"=", "'", "b", ".", "x", "l", "s", "x", "'", "!", "T">>),
      Num(5), Dt(2024, 1, 5), None }

\* workbooks of two sheets, with two cells and one cell
SanitizerWorkbooks ==
    { << Sheet(Tab1Name, <<1, 1>> :> ValueCell(u) @@ <<1, 2>> :> ValueCell(v)),
         Sheet(<<"O">>, <<2, 1>> :> ValueCell(w)) >> :
        u \in SanitizerValues, v \in SanitizerValues, w \in SanitizerValues }

InitSanitize ==
    /\ template_wb \in SanitizerWorkbooks
    /\ summary_wb = template_wb
    /\ pc = "TemplateCopied"
    /\ client_ws = Sheet(<< >>, [p \in {} |-> DefaultCell])
    /\ sheet_date = NoDate
    /\ fi = 0
    /\ tabs_created = 0
    /\ client_files_list = << >>
    /\ hist = NoHist
    /\ NoBatch

SpecSanitize == InitSanitize /\ [][Sanitize]_vars

\* a text beginning with "="
IsFormula(v) == v.t = "str" /\ Len(v.s) >= 1 /\ v.s[1] = "="

\* a single-quoted qualifier that names a workbook, as in ='b.xlsx'!T
HasQuotedWorkbook(v) ==
    \E i, j, k \in 1..Len(v.s) :
        i < j /\ j < k /\ v.s[i] = "'" /\ v.s[k] = "'" /\ OccursAt(v.s, <<".", "x", "l">>, j)

\* the cells of the workbook, as <<sheet, position>>
WorkbookCells(wb) == { <<i, p>> : i \in DOMAIN wb, p \in UNION { DOMAIN wb[j].cells : j \in DOMAIN wb } }

ValueIn(wb, c) == CellAt(wb[c[1]], c[2]).value

\* C10: after sanitizing, every cell whose value was a formula with a
\* bracketed external-workbook marker or a single-quoted external qualifier is
\* empty, and every cell whose value was not a formula keeps its value
C10_SanitizerSelectivity ==
    pc = "Sanitized" =>
        \A c \in WorkbookCells(template_wb) :
            /\ (IsFormula(ValueIn(template_wb, c))
                /\ (ExternalLinkPattern(ValueIn(template_wb, c).s)
                    \/ HasQuotedWorkbook(ValueIn(template_wb, c))))
               => ValueIn(summary_wb, c) = None
            /\ ~IsFormula(ValueIn(template_wb, c))
               => ValueIn(summary_wb, c) = ValueIn(template_wb, c)

-----------------------------------------------------------------------------
(* The loop over one client's files on its own                             *)

\* the state at line 205: the workbook wb holds tab1, the files are sorted
AtLoopStart(wb, files) ==
    /\ template_wb = wb
    /\ summary_wb = wb
    /\ client_files_list = SortByDate(files)
    /\ fi = 1
    /\ tabs_created = 0
    /\ pc = "IteratingFiles"
    /\ client_ws = Sheet(<< >>, [p \in {} |-> DefaultCell])
    /\ sheet_date = NoDate
    /\ hist = [NoHist EXCEPT !.tab1_before = wb[SheetIndex(wb, Tab1Name)],
                             !.base_names = sheetnames(wb)]
    /\ NoBatch

\* the sheet of the k-th tab the loop created
TabSheet(k) == summary_wb[Len(hist.base_names) + k]

-----------------------------------------------------------------------------
(* Tab labels: many files of one date, and names of 31 characters          *)

\* the most files of the client
MaxTabs == 10

LongToken == [i \in 1..ExcelTitleLimit |-> "a"]

\* files 1_aaa...a, 2_aaa...a, ...: one date token of 31 characters
LabelFiles == [k \in 1..MaxTabs |-> File(DecimalDigits(k) \o <<"_">> \o LongToken, "xlsx")]

\* a sheet without a date
DataUndated == Sheet(<<"S">>, <<1, 1>> :> ValueCell(Str(<<"n">>)))

LabelContents == { Readable(DataDated), Readable(DataUndated) }

\* the template copy: tab1 alone, or with sheets named as a label with a counter
LabelWorkbooks ==
    { <<Tab1Plain>>,
      <<Tab1Plain, Sheet(Candidate(LongToken, 1), [p \in {} |-> DefaultCell])>>,
      <<Tab1Plain, Sheet(<<"2", "0", "2", "4", "0", "1", "0", "5", "_", "1">>, [p \in {} |-> DefaultCell]),
        Sheet(Candidate(LongToken, 10), [p \in {} |-> DefaultCell])>> }

InitLabel == \E wb \in LabelWorkbooks : AtLoopStart(wb, LabelFiles)

ProcessLabelFile == ProcessFileFrom(LabelContents)

SpecLabel == InitLabel /\ [][ProcessLabelFile]_vars

-----------------------------------------------------------------------------
(* The transplant: templates and data sheets of a small grid               *)

\* the rows and columns of the grid
Rows == 2
Cols == 2

Grid == (1..Rows) \X (1..Cols)

\* tab1 with the cells of footprint: A1 of one style, the others of another,
\* and the merged ranges
GridTab1(footprint, anchor_style, other_style, ranges) ==
    Loaded(Tab1Name,
           [p \in footprint |-> IF p = <<1, 1>> THEN Styled(Str(<<"T">>), anchor_style)
                                ELSE Styled(None, other_style)],
           1 :> 10, 1 :> 20, ranges)

GridRanges == { {} } \cup { { <<1, 1, p[1], p[2]>> } : p \in Grid \ { <<1, 1>> } }

TransplantWorkbooks ==
    { <<OtherSheet, GridTab1(fp, a, o, rs)>> :
        fp \in { { <<1, 1>> }, Grid }, a \in {DefaultStyle, BoldStyle, DateStyle},
        o \in {DefaultStyle, NumberStyle}, rs \in GridRanges }

\* a data sheet: a text or a date in the grid, and possibly a number below it
TransplantSheets ==
    { Sheet(<<"S">>, p :> ValueCell(v) @@ <<Rows + 1, 1>> :> ValueCell(w)) :
        p \in Grid, v \in {Str(<<"x">>), Dt(2024, 1, 5)}, w \in {None, Num(7)} }

TransplantContents == { Readable(ws) : ws \in TransplantSheets } \cup { Unreadable }

TransplantFiles == << File(<<"c", "_", "1">>, "xlsx"), File(<<"c", "_", "2">>, "xlsx") >>

InitTransplant == \E wb \in TransplantWorkbooks : AtLoopStart(wb, TransplantFiles)

ProcessTransplantFile == ProcessFileFrom(TransplantContents)

SpecTransplant == InitTransplant /\ [][ProcessTransplantFile]_vars

\* C1: every cell of the data sheet that holds a value has the same value at
\* the same row and column of the tab made from it, whatever tab1 styles and
\* merges
C1_DataFidelity ==
    \A k \in 1..Len(hist.tabs) :
        \A p \in ValuedCells(hist.tabs[k].ws) :
            CellAt(TabSheet(k), p).value = hist.tabs[k].ws.cells[p].value

\* C2: every cell of tab1 that has a style has an equal style at the same row
\* and column of a tab whose transplant has finished, the merged ranges being
\* recreated and the values overlaid
C2_StyleFidelity ==
    \A k \in 1..Len(hist.tabs) :
        ~hist.tabs[k].raised =>
            \A p \in DOMAIN hist.tab1_before.cells :
                has_style(hist.tab1_before.cells[p])
                    => CellAt(TabSheet(k), p).style = hist.tab1_before.cells[p].style

\* C3: after every transplant tab1 and the other sheets of the template copy
\* are what they were before the first one (values, styles, column widths, row
\* heights, merged ranges), and two tabs made from equal data sheets differ in
\* their titles only
C3_TemplateNotMutated ==
    /\ summary_wb[SheetIndex(summary_wb, Tab1Name)] = hist.tab1_before
    /\ \A i \in 1..Len(hist.base_names) : summary_wb[i] = template_wb[i]
    /\ \A i, j \in 1..Len(hist.tabs) :
          hist.tabs[i].ws = hist.tabs[j].ws
              => [TabSheet(i) EXCEPT !.title = << >>] = [TabSheet(j) EXCEPT !.title = << >>]

\* two tabs made from the same data sheet, with a value written, against a
\* tab1 that has a merged range and a styled cell
C3_Witness ==
    /\ Len(hist.tabs) = 2
    /\ hist.tabs[1].ws = hist.tabs[2].ws
    /\ hist.tabs[1].name # hist.tabs[2].name
    /\ ~hist.tabs[1].raised
    /\ hist.tab1_before.merged_cells # {}
    /\ has_style(hist.tab1_before.cells[<<1, 1>>])
    /\ \E p \in ValuedCells(hist.tabs[1].ws) :
          /\ p \in DOMAIN hist.tab1_before.cells
          /\ TabSheet(2).cells[p].value = hist.tabs[1].ws.cells[p].value
          /\ hist.tab1_before.cells[p].value # hist.tabs[1].ws.cells[p].value

====
